---- MODULE Spec2Model ----
(***************************************************************************)
(* Asset issuance / signature-gated status state machine of the IT asset   *)
(* management backend (backend/app/routers/assets.py), with its issuance   *)
(* ledger, document cohort and audit log, over the tables declared in      *)
(* backend/app/models/models.py.                                           *)
(*                                                                         *)
(* Ids are the surrogate integer keys.  A nullable integer or datetime     *)
(* column holds NULL (the empty set) or Some(v); a nullable text column    *)
(* holds None or a string.  Datetimes are whole days on the clock `now`.   *)
(***************************************************************************)
EXTENDS Integers, Sequences, FiniteSets, TLC

\* ---------------------------------------------------------------- bounds
MaxAssets == 1
MaxUsers == 2
MaxIssuances == 2
MaxAuditLogs == 5
MaxClockAuditLogs == 3
MaxAdminAuditLogs == 4
MaxSigningAuditLogs == 4
MaxExpiryAuditLogs == 7
MaxUpdateAuditLogs == 3
MaxDocumentsAuditLogs == 4
MaxSignRaceAuditLogs == 6
MaxListingAuditLogs == 3
MaxAbortAuditLogs == 4
MaxLedgerIssuances == 3
MaxLedgerAuditLogs == 9
MaxSessions == 2
MaxTicks == 1
TickDays == 8

\* ------------------------------------------------------- program constants
SignWindowDays == 7

NULL == {}
Some(x) == {x}
None == "<None>"

AVAILABLE == "available"
PENDING_FOR_SIGNATURE == "pending_for_signature"
IN_USE == "in_use"
MAINTENANCE == "maintenance"
RETIRED == "retired"
AssetStatus == {AVAILABLE, PENDING_FOR_SIGNATURE, IN_USE, MAINTENANCE, RETIRED}

DECLARATION_FORM == "declaration_form"
IT_ORIENTATION == "it_orientation"
HANDOVER_FORM == "handover_form"
DocumentType == {DECLARATION_FORM, IT_ORIENTATION, HANDOVER_FORM}

PENDING == "pending"
SIGNED == "signed"
EXPIRED == "expired"
CANCELLED == "cancelled"
DocumentStatus == {PENDING, SIGNED, EXPIRED, CANCELLED}

\* The order in which issue_asset creates the cohort.
document_types == <<DECLARATION_FORM, IT_ORIENTATION, HANDOVER_FORM>>

\* ------------------------------------------------------------ input sets
SessionIds == 1..MaxSessions
UserIds == 1..MaxUsers
\* The directory, the id the "system" user takes, and an id no user has.
UserIdInputs == 1..(MaxUsers + 2)
AssetIdInputs == 1..(MaxAssets + 1)
IssuanceIdInputs == 1..(MaxIssuances + 1)
DocumentIdInputs == 1..(Len(document_types) * MaxIssuances + 1)
Departments == {"IT", "Engineering"}
\* Departments a caller may submit on update: one carries trailing blanks.
DepartmentInputs == Departments \cup {"IT "}
Signatures == {"sig"}
Reasons == {"changed mind"}
\* Status strings a caller may submit: the enumeration, a string outside
\* it, the empty string and an explicit null.
StatusInputs == AssetStatus \cup {"bogus", "", None}

VARIABLES
    users,             \* users table: id -> [username, department]
    assets,            \* assets table: id -> [status, assigned_user_id, department]
    next_asset_id,     \* the assets.id sequence
    asset_issuances,   \* asset_issuances table, row id = index
    asset_documents,   \* asset_documents table, row id = index
    audit_logs,        \* audit_logs table, row id = index
    now,               \* datetime.utcnow(), in days
    response,          \* the last request answered and what it returned
    sessions           \* requests in flight: what each database session holds

vars == <<users, assets, next_asset_id, asset_issuances, asset_documents,
          audit_logs, now, response, sessions>>

db == <<users, assets, next_asset_id, asset_issuances, asset_documents, audit_logs>>

\* ---------------------------------------------------------------- rows
\* The employees of the sample directory (its users after the administrator
\* and the managers), numbered from 1.
users_data ==
    <<[username |-> "user1", department |-> "Engineering"],
      [username |-> "user2", department |-> "Marketing"],
      [username |-> "user3", department |-> "Finance"],
      [username |-> "user4", department |-> "Engineering"]>>

\* get_system_user: the users table with the "system" user, created on first
\* use with the next id.
get_system_user(table) ==
    IF \E u \in DOMAIN table : table[u].username = "system"
    THEN table
    ELSE Append(table, [username |-> "system", department |-> "IT"])

Asset(department) ==
    [status |-> AVAILABLE, assigned_user_id |-> NULL, department |-> department]

AssetIssuance(asset_id, user_id, notes) ==
    [asset_id |-> asset_id, user_id |-> user_id, issued_date |-> now,
     return_date |-> NULL, notes |-> notes]

AssetDocument(asset_id, user_id, document_type, status, expires_at) ==
    [asset_id |-> asset_id, user_id |-> user_id, document_type |-> document_type,
     status |-> status, signature_data |-> None, signed_at |-> NULL,
     expires_at |-> expires_at]

AuditLog(action, resource_type, resource_id, old_values, new_values) ==
    [action |-> action, resource_type |-> resource_type, resource_id |-> resource_id,
     old_values |-> old_values, new_values |-> new_values]

\* A log that keeps its newest entry only.
NewestEntryOnly(logs, action, resource_type, resource_id, old_values, new_values) ==
    <<AuditLog(action, resource_type, resource_id, old_values, new_values)>>

\* db.add(audit_log); db.commit()
log_audit_action(logs, action, resource_type, resource_id, old_values, new_values) ==
    Append(logs, AuditLog(action, resource_type, resource_id, old_values, new_values))

\* A session between requests.
Idle == [pc |-> "idle"]

\* What a handler returned: a 2xx body, or an HTTPException raised before
\* anything was committed, or one raised after a commit.
Ok(op, target) ==
    [op |-> op, target |-> target, status_code |-> 200, detail |-> "ok",
     committed |-> TRUE]
HTTPException(op, target, status_code, detail) ==
    [op |-> op, target |-> target, status_code |-> status_code, detail |-> detail,
     committed |-> FALSE]
HTTPExceptionAfterCommit(op, target, status_code, detail) ==
    [op |-> op, target |-> target, status_code |-> status_code, detail |-> detail,
     committed |-> TRUE]

\* ---------------------------------------------------------------- queries
\* Every issuance row of an asset, returned or not.
IssuancesOf(asset_id) ==
    {i \in DOMAIN asset_issuances : asset_issuances[i].asset_id = asset_id}

\* AssetIssuance rows of an asset with return_date IS NULL
OpenIssuances(asset_id) ==
    {i \in DOMAIN asset_issuances :
        /\ asset_issuances[i].asset_id = asset_id
        /\ asset_issuances[i].return_date = NULL}

\* ---------------------------------------------------------------- Init
Init ==
    /\ users = [u \in UserIds |-> users_data[u]]
    /\ assets = <<>>
    /\ next_asset_id = 1
    /\ asset_issuances = <<>>
    /\ asset_documents = <<>>
    /\ audit_logs = <<>>
    /\ now = 0
    /\ response = Ok("startup", 0)
    /\ sessions = [s \in SessionIds |-> Idle]

\* ------------------------------------------------------------ create_asset
\* POST /assets/ : the new row takes the column defaults (status AVAILABLE,
\* no assigned user); then the "create" audit entry.
create_asset(department) ==
    /\ assets' = (next_asset_id :> Asset(department)) @@ assets
    /\ next_asset_id' = next_asset_id + 1
    /\ audit_logs' = log_audit_action(audit_logs, "create", "asset", next_asset_id,
                                      <<>>, [status |-> AVAILABLE, department |-> department])
    /\ users' = get_system_user(users)
    /\ response' = Ok("create_asset", next_asset_id)
    /\ UNCHANGED <<asset_issuances, asset_documents, now, sessions>>

\* ------------------------------------------------------------- issue_asset
\* An availability check that refuses only an asset in use.
IsNotInUse(asset) == asset.status # IN_USE

\* asset.status == AssetStatus.AVAILABLE, the only state issue_asset accepts.
IsAvailable(asset) == asset.status = AVAILABLE

\* A cohort of three declaration forms.
DeclarationForms(asset_id, user_id) ==
    [k \in 1..Len(document_types) |->
        AssetDocument(asset_id, user_id, DECLARATION_FORM, PENDING,
                      Some(now + SignWindowDays))]

\* The three AssetDocument rows issue_asset adds, one per document type, each
\* PENDING with seven days to sign.
CohortDocuments(asset_id, user_id) ==
    [k \in 1..Len(document_types) |->
        AssetDocument(asset_id, user_id, document_types[k], PENDING,
                      Some(now + SignWindowDays))]

\* The asset as issue_asset leaves it.
IssuedAsset(asset, user_id) ==
    [asset EXCEPT !.status = PENDING_FOR_SIGNATURE,
                  !.assigned_user_id = Some(user_id),
                  !.department = users[user_id].department]

\* An issue that writes the issuance and the status before it looks the user
\* up.
IssueBeforeUserLookup(asset_id, user_id, notes) ==
    /\ asset_id \in DOMAIN assets
    /\ IsAvailable(assets[asset_id])
    /\ asset_issuances' = Append(asset_issuances, AssetIssuance(asset_id, user_id, notes))
    /\ assets' = [assets EXCEPT ![asset_id].status = PENDING_FOR_SIGNATURE]
    /\ response' = IF user_id \in DOMAIN users
                   THEN Ok("issue_asset", asset_id)
                   ELSE HTTPException("issue_asset", asset_id, 404, "User not found")
    /\ UNCHANGED <<users, next_asset_id, now, sessions, asset_documents, audit_logs>>

\* POST /assets/{asset_id}/issue
issue_asset(asset_id, user_id, notes) ==
    /\ UNCHANGED <<users, next_asset_id, now, sessions>>
    /\ IF asset_id \notin DOMAIN assets
       THEN /\ response' = HTTPException("issue_asset", asset_id, 404, "Asset not found")
            /\ UNCHANGED <<assets, asset_issuances, asset_documents, audit_logs>>
       ELSE IF ~IsAvailable(assets[asset_id])
       THEN /\ response' = HTTPException("issue_asset", asset_id, 400,
                                         "Asset is not available for issuance")
            /\ UNCHANGED <<assets, asset_issuances, asset_documents, audit_logs>>
       ELSE IF user_id \notin DOMAIN users
       THEN /\ response' = HTTPException("issue_asset", asset_id, 404, "User not found")
            /\ UNCHANGED <<assets, asset_issuances, asset_documents, audit_logs>>
       ELSE /\ asset_issuances' = Append(asset_issuances,
                                         AssetIssuance(asset_id, user_id, notes))
            /\ assets' = [assets EXCEPT ![asset_id] = IssuedAsset(@, user_id)]
            /\ asset_documents' = asset_documents \o CohortDocuments(asset_id, user_id)
            /\ audit_logs' = log_audit_action(audit_logs, "assign", "asset", asset_id,
                                              <<>>, <<>>)
            /\ response' = Ok("issue_asset", asset_id)

\* The UPDATE a flush sends for a loaded row: only the columns whose value
\* differs from the loaded one are written over the stored row.
Flush(loaded, modified, stored) ==
    [k \in DOMAIN stored |-> IF modified[k] # loaded[k] THEN modified[k] ELSE stored[k]]

\* issue_asset up to its checks: the session loads the asset and the user.
issue_asset_begin(s, asset_id, user_id, notes) ==
    /\ sessions[s] = Idle
    /\ UNCHANGED <<db, now>>
    /\ IF asset_id \notin DOMAIN assets
       THEN /\ response' = HTTPException("issue_asset", asset_id, 404, "Asset not found")
            /\ UNCHANGED sessions
       ELSE IF ~IsAvailable(assets[asset_id])
       THEN /\ response' = HTTPException("issue_asset", asset_id, 400,
                                         "Asset is not available for issuance")
            /\ UNCHANGED sessions
       ELSE IF user_id \notin DOMAIN users
       THEN /\ response' = HTTPException("issue_asset", asset_id, 404, "User not found")
            /\ UNCHANGED sessions
       ELSE /\ sessions' = [sessions EXCEPT ![s] =
                               [pc |-> "issue_checked", asset_id |-> asset_id,
                                user_id |-> user_id, notes |-> notes,
                                asset |-> assets[asset_id]]]
            /\ UNCHANGED response

\* issue_asset failing between its checks and its db.commit() (an insert or
\* the commit raises, or the worker stops): the session is closed with
\* nothing committed.
issue_asset_abort(s) ==
    /\ sessions[s].pc = "issue_checked"
    /\ response' = HTTPException("issue_asset", sessions[s].asset_id, 500,
                                 "Internal Server Error")
    /\ sessions' = [sessions EXCEPT ![s] = Idle]
    /\ UNCHANGED <<db, now>>

\* A commit that persists the issuance row alone.
IssuanceOnlyCommit(s) ==
    /\ sessions[s].pc = "issue_checked"
    /\ asset_issuances' = Append(asset_issuances,
                                 AssetIssuance(sessions[s].asset_id, sessions[s].user_id,
                                               sessions[s].notes))
    /\ sessions' = [sessions EXCEPT ![s].pc = "issue_committed"]
    /\ UNCHANGED <<users, assets, next_asset_id, asset_documents, audit_logs, now,
                   response>>

\* issue_asset from the issuance row to its db.commit(): the inserts and the
\* UPDATE of the asset as the session holds it.
issue_asset_commit(s) ==
    /\ sessions[s].pc = "issue_checked"
    /\ LET asset_id == sessions[s].asset_id
           user_id == sessions[s].user_id
       IN  /\ asset_issuances' = Append(asset_issuances,
                                        AssetIssuance(asset_id, user_id, sessions[s].notes))
           /\ assets' = [assets EXCEPT ![asset_id] =
                            Flush(sessions[s].asset,
                                  IssuedAsset(sessions[s].asset, user_id), @)]
           /\ asset_documents' = asset_documents \o CohortDocuments(asset_id, user_id)
    /\ sessions' = [sessions EXCEPT ![s].pc = "issue_committed"]
    /\ UNCHANGED <<users, next_asset_id, audit_logs, now, response>>

\* issue_asset after its commit: the "assign" audit entry and the response.
issue_asset_log(s) ==
    /\ sessions[s].pc = "issue_committed"
    /\ audit_logs' = log_audit_action(audit_logs, "assign", "asset",
                                      sessions[s].asset_id, <<>>, <<>>)
    /\ response' = Ok("issue_asset", sessions[s].asset_id)
    /\ sessions' = [sessions EXCEPT ![s] = Idle]
    /\ UNCHANGED <<users, assets, next_asset_id, asset_issuances, asset_documents, now>>

\* issue_asset ending between its db.commit() and the commit of
\* log_audit_action: the audit commit fails or the worker stops, and the
\* request ends with the issuance committed and no "assign" entry.
issue_asset_stop(s) ==
    /\ sessions[s].pc = "issue_committed"
    /\ response' = HTTPExceptionAfterCommit("issue_asset", sessions[s].asset_id, 500,
                                            "Internal Server Error")
    /\ sessions' = [sessions EXCEPT ![s] = Idle]
    /\ UNCHANGED <<db, now>>

\* ------------------------------------------------------------ return_asset
\* The asset as return_asset and cancel_issuance leave it.
ReleasedAsset(asset) ==
    [asset EXCEPT !.status = AVAILABLE, !.assigned_user_id = NULL, !.department = "IT"]

\* .order_by(issued_date.desc()).first() over the open issuances: the row
\* with the latest issued_date; rows issued on the same day of the clock were
\* issued in id order.
LatestOpenIssuances(asset_id) ==
    {i \in OpenIssuances(asset_id) :
        \A j \in OpenIssuances(asset_id) :
            \/ asset_issuances[j].issued_date < asset_issuances[i].issued_date
            \/ asset_issuances[j].issued_date = asset_issuances[i].issued_date /\ j <= i}

\* A return that deletes the issuance row it closes.
ReturnDeletesIssuance(asset_id) ==
    /\ UNCHANGED <<users, next_asset_id, now, sessions, asset_documents, audit_logs>>
    /\ asset_id \in DOMAIN assets
    /\ \E i \in LatestOpenIssuances(asset_id) :
           /\ asset_issuances' = SubSeq(asset_issuances, 1, i - 1)
                                     \o SubSeq(asset_issuances, i + 1, Len(asset_issuances))
           /\ assets' = [assets EXCEPT ![asset_id] = ReleasedAsset(@)]
           /\ response' = Ok("return_asset", asset_id)

\* POST /assets/{asset_id}/return
return_asset(asset_id) ==
    /\ UNCHANGED <<users, next_asset_id, now, sessions, asset_documents, audit_logs>>
    /\ IF asset_id \notin DOMAIN assets
       THEN /\ response' = HTTPException("return_asset", asset_id, 404, "Asset not found")
            /\ UNCHANGED <<assets, asset_issuances>>
       ELSE IF OpenIssuances(asset_id) = {}
       THEN /\ response' = HTTPException("return_asset", asset_id, 400,
                                         "No active issuance record found")
            /\ UNCHANGED <<assets, asset_issuances>>
       ELSE \E i \in LatestOpenIssuances(asset_id) :
            /\ asset_issuances' = [asset_issuances EXCEPT ![i].return_date = Some(now)]
            /\ assets' = [assets EXCEPT ![asset_id] = ReleasedAsset(@)]
            /\ response' = Ok("return_asset", asset_id)

\* ----------------------------------------------------------- sign_document
\* A status check that refuses only a cancelled document.
IsNotCancelled(document) == document.status # CANCELLED

\* document.status != DocumentStatus.PENDING, negated
IsPending(document) == document.status = PENDING

\* A sign_document that never looks at the expiry date.
NeverExpired(document) == FALSE

\* document.expires_at and document.expires_at < datetime.utcnow()
IsExpired(document) == \E e \in document.expires_at : e < now

\* The rows the "all documents" query of sign_document returns: same asset,
\* same user, stored status PENDING or SIGNED.
all_documents(document) ==
    {d \in DOMAIN asset_documents :
        /\ asset_documents[d].asset_id = document.asset_id
        /\ asset_documents[d].user_id = document.user_id
        /\ asset_documents[d].status \in {PENDING, SIGNED}}

\* all(doc.status == SIGNED for doc in all_documents), the document being
\* signed already carrying SIGNED in the session.
all_signed(document_id) ==
    \A d \in all_documents(asset_documents[document_id]) :
        d = document_id \/ asset_documents[d].status = SIGNED

\* POST /assets/documents/{document_id}/sign
sign_document(document_id, signature_data) ==
    /\ UNCHANGED <<users, next_asset_id, now, sessions, asset_issuances>>
    /\ IF document_id \notin DOMAIN asset_documents
       THEN /\ response' = HTTPException("sign_document", document_id, 404,
                                         "Document not found")
            /\ UNCHANGED <<assets, asset_documents, audit_logs>>
       ELSE IF ~IsPending(asset_documents[document_id])
       THEN /\ response' = HTTPException("sign_document", document_id, 400,
                                         "Document is not pending signature")
            /\ UNCHANGED <<assets, asset_documents, audit_logs>>
       ELSE IF IsExpired(asset_documents[document_id])
       THEN /\ asset_documents' = [asset_documents EXCEPT ![document_id].status = EXPIRED]
            /\ response' = HTTPExceptionAfterCommit("sign_document", document_id, 400,
                                                    "Document has expired")
            /\ UNCHANGED <<assets, audit_logs>>
       ELSE LET document == asset_documents[document_id]
                asset_found == document.asset_id \in DOMAIN assets
                to_in_use == all_signed(document_id) /\ asset_found
            IN  /\ asset_documents' =
                       [asset_documents EXCEPT ![document_id].status = SIGNED,
                                               ![document_id].signature_data = signature_data,
                                               ![document_id].signed_at = Some(now)]
                /\ assets' = IF to_in_use
                             THEN [assets EXCEPT ![document.asset_id].status = IN_USE]
                             ELSE assets
                /\ audit_logs' =
                       log_audit_action(
                           IF to_in_use
                           THEN log_audit_action(audit_logs, "status_change", "asset",
                                                 document.asset_id, <<>>, <<>>)
                           ELSE audit_logs,
                           "sign_document", "document", document_id, <<>>, <<>>)
                /\ response' = Ok("sign_document", document_id)

\* sign_document up to its checks: the session loads the document.
sign_document_begin(s, document_id, signature_data) ==
    /\ sessions[s] = Idle
    /\ UNCHANGED <<users, assets, next_asset_id, now, asset_issuances, audit_logs>>
    /\ IF document_id \notin DOMAIN asset_documents
       THEN /\ response' = HTTPException("sign_document", document_id, 404,
                                         "Document not found")
            /\ UNCHANGED <<asset_documents, sessions>>
       ELSE IF ~IsPending(asset_documents[document_id])
       THEN /\ response' = HTTPException("sign_document", document_id, 400,
                                         "Document is not pending signature")
            /\ UNCHANGED <<asset_documents, sessions>>
       ELSE IF IsExpired(asset_documents[document_id])
       THEN /\ asset_documents' = [asset_documents EXCEPT ![document_id].status = EXPIRED]
            /\ response' = HTTPExceptionAfterCommit("sign_document", document_id, 400,
                                                    "Document has expired")
            /\ UNCHANGED sessions
       ELSE /\ sessions' = [sessions EXCEPT ![s] =
                               [pc |-> "sign_loaded", document_id |-> document_id,
                                signature_data |-> signature_data,
                                document |-> asset_documents[document_id]]]
            /\ UNCHANGED <<asset_documents, response>>

\* sign_document's queries after it set the document SIGNED in the session
\* (nothing is flushed: autoflush is off): the asset and the "all documents"
\* rows as committed at that moment.
sign_document_query(s) ==
    /\ sessions[s].pc = "sign_loaded"
    /\ LET document == sessions[s].document
           asset_found == document.asset_id \in DOMAIN assets
       IN  sessions' = [sessions EXCEPT ![s] =
                           [pc |-> "sign_queried",
                            document_id |-> sessions[s].document_id,
                            signature_data |-> sessions[s].signature_data,
                            document |-> document,
                            asset |-> IF asset_found THEN Some(assets[document.asset_id])
                                      ELSE NULL,
                            to_in_use |-> all_signed(sessions[s].document_id)
                                          /\ asset_found]]
    /\ UNCHANGED <<db, now, response>>

\* sign_document from its first commit to its response: the UPDATEs of the
\* rows as the session holds them, and the audit entries.
sign_document_commit(s) ==
    /\ sessions[s].pc = "sign_queried"
    /\ LET document_id == sessions[s].document_id
           document == sessions[s].document
           to_in_use == sessions[s].to_in_use /\ document.asset_id \in DOMAIN assets
       IN  /\ asset_documents' =
                  [asset_documents EXCEPT ![document_id] =
                      Flush(document,
                            [document EXCEPT !.status = SIGNED,
                                             !.signature_data = sessions[s].signature_data,
                                             !.signed_at = Some(now)],
                            @)]
           /\ assets' = IF to_in_use
                        THEN [assets EXCEPT ![document.asset_id] =
                                 CHOOSE row \in {Flush(asset, [asset EXCEPT !.status = IN_USE], @) :
                                                    asset \in sessions[s].asset} : TRUE]
                        ELSE assets
           /\ audit_logs' =
                  log_audit_action(
                      IF to_in_use
                      THEN log_audit_action(audit_logs, "status_change", "asset",
                                            document.asset_id, <<>>, <<>>)
                      ELSE audit_logs,
                      "sign_document", "document", document_id, <<>>, <<>>)
           /\ response' = Ok("sign_document", document_id)
    /\ sessions' = [sessions EXCEPT ![s] = Idle]
    /\ UNCHANGED <<users, next_asset_id, now, asset_issuances>>

\* --------------------------------------------------------- cancel_issuance
\* A cancel check that refuses only an available asset.
IsNotAvailable(asset) == asset.status # AVAILABLE

\* asset.status in [PENDING_FOR_SIGNATURE, IN_USE]
IsCancellable(asset) == asset.status \in {PENDING_FOR_SIGNATURE, IN_USE}

\* Notes that hold the reason alone.
ReasonOnly(reason) == reason

\* f"CANCELLED: {cancel_request.reason}"
CancelNotes(reason) == "CANCELLED: " \o reason

\* Every document of the pair still PENDING or already SIGNED.
PendingOrSignedCohort(asset_id, user_id) ==
    {d \in DOMAIN asset_documents :
        /\ asset_documents[d].asset_id = asset_id
        /\ asset_documents[d].user_id = user_id
        /\ asset_documents[d].status \in {PENDING, SIGNED}}

\* The PENDING documents of the issuance's (asset, user) pair.
PendingCohort(asset_id, user_id) ==
    {d \in DOMAIN asset_documents :
        /\ asset_documents[d].asset_id = asset_id
        /\ asset_documents[d].user_id = user_id
        /\ asset_documents[d].status = PENDING}

\* POST /assets/issuances/{issuance_id}/cancel
cancel_issuance(issuance_id, reason) ==
    /\ UNCHANGED <<users, next_asset_id, now, sessions>>
    /\ IF issuance_id \notin DOMAIN asset_issuances
       THEN /\ response' = HTTPException("cancel_issuance", issuance_id, 404,
                                         "Issuance not found")
            /\ UNCHANGED <<assets, asset_issuances, asset_documents, audit_logs>>
       ELSE IF asset_issuances[issuance_id].asset_id \notin DOMAIN assets
       THEN /\ response' = HTTPException("cancel_issuance", issuance_id, 404,
                                         "Asset not found")
            /\ UNCHANGED <<assets, asset_issuances, asset_documents, audit_logs>>
       ELSE IF ~IsCancellable(assets[asset_issuances[issuance_id].asset_id])
       THEN /\ response' = HTTPException("cancel_issuance", issuance_id, 400,
                                         "Can only cancel pending or active issuances")
            /\ UNCHANGED <<assets, asset_issuances, asset_documents, audit_logs>>
       ELSE LET issuance == asset_issuances[issuance_id]
            IN  /\ assets' = [assets EXCEPT ![issuance.asset_id] = ReleasedAsset(@)]
                /\ asset_issuances' =
                       [asset_issuances EXCEPT ![issuance_id].return_date = Some(now),
                                               ![issuance_id].notes = CancelNotes(reason)]
                /\ asset_documents' =
                       [d \in DOMAIN asset_documents |->
                           IF d \in PendingCohort(issuance.asset_id, issuance.user_id)
                           THEN [asset_documents[d] EXCEPT !.status = CANCELLED]
                           ELSE asset_documents[d]]
                /\ audit_logs' = log_audit_action(audit_logs, "cancel_issuance", "asset",
                                                  issuance.asset_id, <<>>, <<>>)
                /\ response' = Ok("cancel_issuance", issuance_id)

\* ---------------------------------------------------------------- listings
\* The status query strings a caller may submit: none, empty, blank, a
\* string outside the enumeration, a value of the enumeration bare and
\* between blanks, and the name of a member.
StatusFilterInputs ==
    {None, "", "  ", "bogus", AVAILABLE, " in_use ", "AVAILABLE"}

\* status.strip()
StripStatus(status) ==
    CASE status = "  " -> ""
      [] status = " in_use " -> IN_USE
      [] OTHER -> status

\* The labels of the column's enum type are the names of the members.
AssetStatusNames == [n \in {"AVAILABLE"} |-> AVAILABLE]

\* if status and status.strip(): try: query.filter(Asset.status ==
\* AssetStatus(status.strip())) except ValueError: pass
status_filter(rows, status) ==
    IF status # None /\ StripStatus(status) \in AssetStatus
    THEN {a \in rows : assets[a].status = StripStatus(status)}
    ELSE rows

\* The answer of a listing that parses the status: the rows left.
listing(op, rows, status) ==
    /\ response' = Ok(op, status_filter(rows, status))
    /\ UNCHANGED <<db, now, sessions>>

\* if status: query.filter(Asset.status == status): the string goes to the
\* database as it is, and the enum column accepts the name of a member only;
\* the query fails on any other string.
listing_unparsed(op, rows, status) ==
    /\ response' = IF status \in {None, ""}
                   THEN Ok(op, rows)
                   ELSE IF status \in DOMAIN AssetStatusNames
                   THEN Ok(op, {a \in rows : assets[a].status = AssetStatusNames[status]})
                   ELSE HTTPException(op, rows, 500, "Internal Server Error")
    /\ UNCHANGED <<db, now, sessions>>

\* GET /assets/
get_assets(status) == listing("get_assets", DOMAIN assets, status)

\* GET /assets/user-types; user_assets: the rows of type laptop, desktop or
\* tablet.
get_user_type_assets(user_assets, status) ==
    listing("get_user_type_assets", user_assets, status)

\* GET /assets/export/csv
export_assets_csv(status) == listing("export_assets_csv", DOMAIN assets, status)

\* GET /assets/list/servers; servers: the rows of type "server".
get_servers(servers, status) == listing_unparsed("get_servers", servers, status)

\* GET /assets/list/network-appliances; appliances: the rows of type
\* "router", "firewall" or "switch".
get_network_appliances(appliances, status) ==
    listing_unparsed("get_network_appliances", appliances, status)

\* ------------------------------------------------------------ update_asset
\* str(value).strip() if value is not None else ""
StrStrip(value) ==
    CASE value = None -> ""
      [] value = "IT " -> "IT"
      [] OTHER -> value

\* The update bodies: any subset of the fields, each with a submitted value
\* (model_dump(exclude_unset=True)).
UpdateData ==
    {f \in UNION {[K -> StatusInputs \cup DepartmentInputs] :
                      K \in SUBSET {"status", "department"}} :
        /\ "status" \in DOMAIN f => f["status"] \in StatusInputs
        /\ "department" \in DOMAIN f => f["department"] \in DepartmentInputs}

\* The bodies that submit a status and nothing else.
StatusUpdates == {f \in UpdateData : DOMAIN f = {"status"}}

\* The keys the update loop writes: a status outside the enumeration is
\* skipped, a null or empty status is written as it is.
WrittenKeys(update_data) ==
    {k \in DOMAIN update_data :
        k = "status" /\ update_data[k] \notin {None, ""} => update_data[k] \in AssetStatus}

\* The asset after the update loop's setattr calls.
UpdatedAsset(asset, update_data) ==
    [k \in DOMAIN asset |->
        IF k \in WrittenKeys(update_data) THEN update_data[k] ELSE asset[k]]

\* The written keys whose stripped string differs from the stored one.
changed_fields(asset, update_data) ==
    {k \in WrittenKeys(update_data) : StrStrip(asset[k]) # StrStrip(update_data[k])}

\* PUT /assets/{asset_id}
update_asset(asset_id, update_data) ==
    /\ UNCHANGED <<users, next_asset_id, now, sessions, asset_issuances, asset_documents>>
    /\ IF asset_id \notin DOMAIN assets
       THEN /\ response' = HTTPException("update_asset", asset_id, 404, "Asset not found")
            /\ UNCHANGED <<assets, audit_logs>>
       ELSE LET asset == assets[asset_id]
                changed == changed_fields(asset, update_data)
            IN  IF UpdatedAsset(asset, update_data).status \notin AssetStatus \cup {None}
                THEN \* the flush rejects a status string the column's enum lacks
                     /\ response' = HTTPException("update_asset", asset_id, 500,
                                                  "Internal Server Error")
                     /\ UNCHANGED <<assets, audit_logs>>
                ELSE /\ assets' = [assets EXCEPT ![asset_id] = UpdatedAsset(asset, update_data)]
                     /\ audit_logs' =
                            IF changed = {}
                            THEN audit_logs
                            ELSE log_audit_action(audit_logs, "update", "asset", asset_id,
                                                  [k \in changed |-> asset[k]],
                                                  [k \in changed |-> update_data[k]])
                     /\ response' =
                            IF UpdatedAsset(asset, update_data).status = None
                            THEN \* committed; AssetResponse refuses a null status
                                 HTTPExceptionAfterCommit("update_asset", asset_id, 500,
                                                          "Internal Server Error")
                            ELSE Ok("update_asset", asset_id)

\* ------------------------------------------------------------- update_user
\* The user update bodies: the department submitted or not, null included.
UserUpdateData ==
    UNION {[K -> Departments \cup {None}] : K \in SUBSET {"department"}}

\* PUT /users/{user_id}: setattr for every submitted key, then db.commit();
\* users.department is NOT NULL, so the flush refuses a null.  No asset row is
\* read or written.
update_user(user_id, update_data) ==
    /\ UNCHANGED <<assets, next_asset_id, now, sessions, asset_issuances,
                   asset_documents, audit_logs>>
    /\ IF user_id \notin DOMAIN users
       THEN /\ response' = HTTPException("update_user", user_id, 404, "User not found")
            /\ UNCHANGED users
       ELSE IF \E k \in DOMAIN update_data : update_data[k] = None
       THEN /\ response' = HTTPException("update_user", user_id, 500,
                                         "Internal Server Error")
            /\ UNCHANGED users
       ELSE /\ users' = [users EXCEPT ![user_id] =
                            [k \in DOMAIN @ |-> IF k \in DOMAIN update_data
                                                THEN update_data[k] ELSE @[k]]]
            /\ response' = Ok("update_user", user_id)

\* -------------------------------------------------------- documents router
\* The document type strings a caller may submit: the enumeration and a
\* string outside it.
DocumentTypeInputs == DocumentType \cup {"bogus"}

\* One year of validity for a document signed through the documents router.
SignedValidityDays == 365

\* POST /documents/sign, sent by the logged-in user current_user: unless a
\* SIGNED document of the asset, the user and the type is stored, a new SIGNED
\* row is added.  DocumentType(<string>) raises on a string outside the
\* enumeration.  No stored row, asset or audit entry is read for the cohort.
documents_sign_document(current_user, asset_id, document_type, signature) ==
    /\ UNCHANGED <<users, assets, next_asset_id, now, sessions, asset_issuances,
                   audit_logs>>
    /\ IF asset_id \notin DOMAIN assets
       THEN /\ response' = HTTPException("documents.sign_document", asset_id, 404,
                                         "Asset not found")
            /\ UNCHANGED asset_documents
       ELSE IF document_type \notin DocumentType
       THEN /\ response' = HTTPException("documents.sign_document", asset_id, 500,
                                         "Internal Server Error")
            /\ UNCHANGED asset_documents
       ELSE IF \E d \in DOMAIN asset_documents :
                   /\ asset_documents[d].asset_id = asset_id
                   /\ asset_documents[d].user_id = current_user
                   /\ asset_documents[d].document_type = document_type
                   /\ asset_documents[d].status = SIGNED
       THEN /\ response' = HTTPException("documents.sign_document", asset_id, 400,
                                         "Document already signed")
            /\ UNCHANGED asset_documents
       ELSE /\ asset_documents' =
                   Append(asset_documents,
                          [AssetDocument(asset_id, current_user, document_type, SIGNED,
                                         Some(now + SignedValidityDays))
                              EXCEPT !.signature_data = signature,
                                     !.signed_at = Some(now)])
            /\ response' = Ok("documents.sign_document", asset_id)

\* POST /documents/initiate/{asset_id}: current_user.role is a UserRole member
\* and is looked up in the list of strings ["admin", "manager"], which holds
\* no UserRole member; every caller is refused before the asset is read.
initiate_document_signing(current_user, asset_id, target_user_id) ==
    /\ response' = HTTPException("initiate_document_signing", asset_id, 403,
                                 "Insufficient permissions")
    /\ UNCHANGED <<db, now, sessions>>

\* ------------------------------------------------------------ delete_asset
\* A schema with no foreign key on assets.id.
NoReferences(asset_id) == FALSE

\* Rows that still point at the asset when it is deleted: an issuance
\* (asset_id NOT NULL) or a document (foreign key).
ReferencingRows(asset_id) ==
    \/ \E i \in DOMAIN asset_issuances : asset_issuances[i].asset_id = asset_id
    \/ \E d \in DOMAIN asset_documents : asset_documents[d].asset_id = asset_id

\* DELETE /assets/{asset_id}: the "delete" audit entry is committed first, then
\* the row is deleted.  The delete fails on a referencing row; the audit
\* entries that name the asset make it fail too where audit_logs.asset_id
\* carries its foreign key (the create_all schema, not the migrated one).
delete_asset(asset_id) ==
    /\ UNCHANGED <<next_asset_id, now, sessions, asset_issuances, asset_documents>>
    /\ IF asset_id \notin DOMAIN assets
       THEN /\ response' = HTTPException("delete_asset", asset_id, 404, "Asset not found")
            /\ UNCHANGED <<users, assets, audit_logs>>
       ELSE IF OpenIssuances(asset_id) # {}
       THEN /\ response' = HTTPException("delete_asset", asset_id, 400,
                                         "Cannot delete asset that is currently issued")
            /\ UNCHANGED <<users, assets, audit_logs>>
       ELSE /\ users' = get_system_user(users)
            /\ audit_logs' = log_audit_action(audit_logs, "delete", "asset", asset_id,
                                              [status |-> assets[asset_id].status,
                                               department |-> assets[asset_id].department],
                                              <<>>)
            /\ \/ /\ ~ReferencingRows(asset_id)
                  /\ assets' = [a \in DOMAIN assets \ {asset_id} |-> assets[a]]
                  /\ response' = Ok("delete_asset", asset_id)
               \/ /\ assets' = assets
                  /\ response' = HTTPExceptionAfterCommit("delete_asset", asset_id, 500,
                                                          "Internal Server Error")

\* ------------------------------------------------------------ bulk deletes
\* db.query(Asset).filter(<type filter>).delete(); db.commit(), over the rows the
\* filter selects.  One DELETE statement: a referencing issuance or document
\* row makes it fail, and so do the audit entries of the rows where
\* audit_logs.asset_id carries its foreign key; the handler rolls back and
\* answers 500.  No audit entry is written.
query_delete(op, rows, detail) ==
    /\ UNCHANGED <<users, next_asset_id, now, sessions, asset_issuances,
                   asset_documents, audit_logs>>
    /\ \/ /\ \A a \in rows : ~ReferencingRows(a)
          /\ assets' = [a \in DOMAIN assets \ rows |-> assets[a]]
          /\ response' = Ok(op, Cardinality(rows))
       \/ /\ rows # {}
          /\ assets' = assets
          /\ response' = HTTPException(op, Cardinality(rows), 500, detail)

\* DELETE /assets/delete-all/servers; servers: the rows with type "server".
delete_all_servers(servers) ==
    query_delete("delete_all_servers", servers, "Failed to delete servers")

\* DELETE /assets/network-appliances/all; appliances: the rows with type
\* "router", "firewall" or "switch".
delete_all_network_appliances(appliances) ==
    query_delete("delete_all_network_appliances", appliances,
                 "Failed to delete network appliances")

\* ------------------------------------------------------------ exploration
\* A request refused before any commit leaves every table as it was, so each
\* continuation from it is a continuation from the state it was sent in; the
\* exploration resumes from that state.
Resumes == response.committed

\* The exploration serves requests while the ledger and the audit log are
\* below the given sizes.
Within(issuances, logs) ==
    /\ Resumes
    /\ Len(asset_issuances) <= issuances
    /\ Len(audit_logs) < logs

Tick ==
    /\ Resumes
    /\ now + TickDays <= MaxTicks * TickDays
    /\ now' = now + TickDays
    /\ UNCHANGED <<db, response, sessions>>

\* The issuance lifecycle, one request at a time.
Next ==
    \/ /\ Within(MaxIssuances, MaxAuditLogs)
       /\ next_asset_id <= MaxAssets
       /\ \E d \in Departments : create_asset(d)
    \/ /\ Within(MaxIssuances - 1, MaxAuditLogs)
       /\ \E a \in AssetIdInputs, u \in UserIdInputs : issue_asset(a, u, None)
    \/ /\ Within(MaxIssuances, MaxAuditLogs)
       /\ \E a \in AssetIdInputs : return_asset(a)
    \/ /\ Within(MaxIssuances, MaxAuditLogs)
       /\ \E d \in DocumentIdInputs, s \in Signatures : sign_document(d, s)
    \/ /\ Within(MaxIssuances, MaxAuditLogs)
       /\ \E i \in IssuanceIdInputs, r \in Reasons : cancel_issuance(i, r)

Spec == Init /\ [][Next]_vars

\* The lifecycle with the clock running: documents expire.
NextClock ==
    \/ Tick
    \/ Len(audit_logs) < MaxClockAuditLogs /\ Next

SpecClock == Init /\ [][NextClock]_vars

\* The lifecycle with the administrative operations: status update and delete.
NextAdmin ==
    \/ Len(audit_logs) < MaxAdminAuditLogs /\ Next
    \/ /\ Within(MaxIssuances, MaxAdminAuditLogs)
       /\ \E a \in AssetIdInputs, f \in StatusUpdates : update_asset(a, f)
    \/ /\ Within(MaxIssuances, MaxAdminAuditLogs)
       /\ \E a \in AssetIdInputs : delete_asset(a)

SpecAdmin == Init /\ [][NextAdmin]_vars

\* The administrative operations with the bulk deletes.  The type of an asset
\* is read by nothing else, so the rows a type filter selects are any set of
\* stored assets.
NextDelete ==
    \/ NextAdmin
    \/ /\ Within(MaxIssuances, MaxAdminAuditLogs)
       /\ \E servers \in SUBSET DOMAIN assets : delete_all_servers(servers)
    \/ /\ Within(MaxIssuances, MaxAdminAuditLogs)
       /\ \E appliances \in SUBSET DOMAIN assets :
              delete_all_network_appliances(appliances)

SpecDelete == Init /\ [][NextDelete]_vars

\* The lifecycle of the assets one employee holds, with the clock running:
\* cohorts are signed, expire, are cancelled and are issued again.
NextSigning ==
    \/ Tick
    \/ /\ Within(MaxIssuances, MaxSigningAuditLogs)
       /\ next_asset_id <= MaxAssets
       /\ create_asset("IT")
    \/ /\ Within(MaxIssuances - 1, MaxSigningAuditLogs)
       /\ \E a \in 1..MaxAssets : issue_asset(a, 1, None)
    \/ /\ Within(MaxIssuances, MaxSigningAuditLogs)
       /\ \E a \in 1..MaxAssets : return_asset(a)
    \/ /\ Within(MaxIssuances, MaxSigningAuditLogs)
       /\ \E d \in DocumentIdInputs, s \in Signatures : sign_document(d, s)
    \/ /\ Within(MaxIssuances, MaxSigningAuditLogs)
       /\ \E i \in 1..MaxIssuances, r \in Reasons : cancel_issuance(i, r)

SpecSigning == Init /\ [][NextSigning]_vars

\* The lifecycle of one asset held by one employee, over a longer history.
NextLedger ==
    \/ /\ Within(MaxLedgerIssuances, MaxLedgerAuditLogs)
       /\ next_asset_id <= MaxAssets
       /\ create_asset("IT")
    \/ /\ Within(MaxLedgerIssuances - 1, MaxLedgerAuditLogs)
       /\ \E a \in 1..MaxAssets : issue_asset(a, 1, None)
    \/ /\ Within(MaxLedgerIssuances, MaxLedgerAuditLogs + 1) \* a return logs nothing
       /\ \E a \in 1..MaxAssets : return_asset(a)
    \/ /\ Within(MaxLedgerIssuances, MaxLedgerAuditLogs)
       /\ \E d \in 1..(Len(document_types) * MaxLedgerIssuances), s \in Signatures :
              sign_document(d, s)
    \/ /\ Within(MaxLedgerIssuances, MaxLedgerAuditLogs)
       /\ \E i \in 1..MaxLedgerIssuances, r \in Reasons : cancel_issuance(i, r)

SpecLedger == Init /\ [][NextLedger]_vars

\* The longer history with the clock running: a cohort expires and the asset
\* is issued again.
NextExpiry ==
    \/ Tick
    \/ Len(audit_logs) < MaxExpiryAuditLogs /\ NextLedger

SpecExpiry == Init /\ [][NextExpiry]_vars

\* Issue requests of several sessions, interleaved at their reads and commits.
NextIssueRace ==
    \/ /\ Within(MaxIssuances, MaxAuditLogs)
       /\ next_asset_id <= MaxAssets
       /\ \E d \in Departments : create_asset(d)
    \/ /\ Within(MaxIssuances - 1, MaxAuditLogs)
       /\ \E s \in SessionIds, a \in AssetIdInputs, u \in UserIdInputs :
              issue_asset_begin(s, a, u, None)
    \/ /\ Within(MaxIssuances - 1, MaxAuditLogs)
       /\ \E s \in SessionIds : issue_asset_commit(s)
    \/ /\ Within(MaxIssuances, MaxAuditLogs)
       /\ \E s \in SessionIds : issue_asset_log(s)

SpecIssueRace == Init /\ [][NextIssueRace]_vars

\* Issue requests that may end between their two commits.
NextStop ==
    \/ NextIssueRace
    \/ /\ Within(MaxIssuances, MaxAuditLogs)
       /\ \E s \in SessionIds : issue_asset_stop(s)

SpecStop == Init /\ [][NextStop]_vars

\* The lifecycle up to return and cancel, with the edits of an asset's fields
\* and of a user's department.
NextUpdate ==
    \/ /\ Within(MaxIssuances, MaxUpdateAuditLogs)
       /\ next_asset_id <= MaxAssets
       /\ \E d \in Departments : create_asset(d)
    \/ /\ Within(MaxIssuances - 1, MaxUpdateAuditLogs)
       /\ \E a \in AssetIdInputs, u \in UserIds : issue_asset(a, u, None)
    \/ /\ Within(MaxIssuances, MaxUpdateAuditLogs)
       /\ \E a \in AssetIdInputs : return_asset(a)
    \/ /\ Within(MaxIssuances, MaxUpdateAuditLogs)
       /\ \E i \in IssuanceIdInputs, r \in Reasons : cancel_issuance(i, r)
    \/ /\ Within(MaxIssuances, MaxUpdateAuditLogs)
       /\ \E a \in AssetIdInputs, f \in UpdateData : update_asset(a, f)
    \/ /\ Within(MaxIssuances, MaxUpdateAuditLogs)
       /\ \E u \in UserIdInputs, g \in UserUpdateData : update_user(u, g)

SpecUpdate == Init /\ [][NextUpdate]_vars

\* The lifecycle of the asset one employee holds, with the documents router:
\* the employee, logged in, signs documents through either router.
NextDocuments ==
    \/ /\ Within(MaxIssuances, MaxDocumentsAuditLogs)
       /\ next_asset_id <= MaxAssets
       /\ create_asset("IT")
    \/ /\ Within(MaxIssuances - 1, MaxDocumentsAuditLogs)
       /\ \E a \in 1..MaxAssets : issue_asset(a, 1, None)
    \/ /\ Within(MaxIssuances, MaxDocumentsAuditLogs)
       /\ \E a \in 1..MaxAssets : return_asset(a)
    \/ /\ Within(MaxIssuances, MaxDocumentsAuditLogs)
       /\ \E d \in DocumentIdInputs, s \in Signatures : sign_document(d, s)
    \/ /\ Within(MaxIssuances, MaxDocumentsAuditLogs)
       /\ Len(asset_documents) <= Len(document_types) * MaxIssuances
       /\ \E a \in AssetIdInputs, t \in DocumentTypeInputs, s \in Signatures :
              documents_sign_document(1, a, t, s)
    \/ /\ Within(MaxIssuances, MaxDocumentsAuditLogs)
       /\ \E a \in AssetIdInputs, t \in UserIdInputs :
              initiate_document_signing(1, a, t)

SpecDocuments == Init /\ [][NextDocuments]_vars

\* Sign requests of several sessions, interleaved at their reads and commits
\* with each other and with a cancel.
NextSignRace ==
    \/ /\ Within(MaxIssuances, MaxSignRaceAuditLogs)
       /\ next_asset_id <= MaxAssets
       /\ create_asset("IT")
    \/ /\ Within(MaxIssuances - 1, MaxSignRaceAuditLogs)
       /\ \E a \in 1..MaxAssets : issue_asset(a, 1, None)
    \/ /\ Within(MaxIssuances, MaxSignRaceAuditLogs)
       /\ \E s \in SessionIds, d \in DocumentIdInputs, g \in Signatures :
              sign_document_begin(s, d, g)
    \/ /\ Within(MaxIssuances, MaxSignRaceAuditLogs)
       /\ \E s \in SessionIds : sign_document_query(s)
    \/ /\ Within(MaxIssuances, MaxSignRaceAuditLogs)
       /\ \E s \in SessionIds : sign_document_commit(s)
    \/ /\ Within(MaxIssuances, MaxSignRaceAuditLogs)
       /\ \E i \in 1..MaxIssuances, r \in Reasons : cancel_issuance(i, r)

SpecSignRace == Init /\ [][NextSignRace]_vars

\* The lifecycle with the listings.  The type of an asset is read by nothing
\* else, so the rows a type filter selects are any set of stored assets.
NextListing ==
    \/ Len(audit_logs) < MaxListingAuditLogs /\ Next
    \/ /\ Resumes
       /\ \E st \in StatusFilterInputs : get_assets(st)
    \/ /\ Resumes
       /\ \E rows \in SUBSET DOMAIN assets, st \in StatusFilterInputs :
              get_user_type_assets(rows, st)
    \/ /\ Resumes
       /\ \E st \in StatusFilterInputs : export_assets_csv(st)
    \/ /\ Resumes
       /\ \E rows \in SUBSET DOMAIN assets, st \in StatusFilterInputs :
              get_servers(rows, st)
    \/ /\ Resumes
       /\ \E rows \in SUBSET DOMAIN assets, st \in StatusFilterInputs :
              get_network_appliances(rows, st)

SpecListing == Init /\ [][NextListing]_vars

\* Issue requests of several sessions that may end at any point:
\* before their commit, or between their commit and the audit entry.
NextAbort ==
    \/ /\ Within(MaxIssuances, MaxAbortAuditLogs)
       /\ next_asset_id <= MaxAssets
       /\ create_asset("IT")
    \/ /\ Within(MaxIssuances - 1, MaxAbortAuditLogs)
       /\ \E s \in SessionIds, a \in 1..MaxAssets, u \in UserIds :
              issue_asset_begin(s, a, u, None)
    \/ /\ Within(MaxIssuances - 1, MaxAbortAuditLogs)
       /\ \E s \in SessionIds : issue_asset_commit(s)
    \/ /\ Within(MaxIssuances, MaxAbortAuditLogs)
       /\ \E s \in SessionIds : issue_asset_log(s)
    \/ /\ Within(MaxIssuances, MaxAbortAuditLogs)
       /\ \E s \in SessionIds : issue_asset_stop(s)
    \/ /\ Within(MaxIssuances, MaxAbortAuditLogs)
       /\ \E s \in SessionIds : issue_asset_abort(s)

SpecAbort == Init /\ [][NextAbort]_vars

\* ================================================================ properties
\* The documents issue_asset created together with issuance row i: each issue
\* inserts one issuance row and one document per document type.
CohortOf(i) == (Len(document_types) * (i - 1) + 1)..(Len(document_types) * i)

\* C1: after any sequence of issue_asset, sign_document, return_asset,
\* cancel_issuance, update_asset and create/delete operations, every asset has
\* an assigned user if and only if its status is PENDING_FOR_SIGNATURE or
\* IN_USE.
C1_AssignedIffHeld ==
    \A a \in DOMAIN assets :
        assets[a].assigned_user_id # NULL
            <=> assets[a].status \in {PENDING_FOR_SIGNATURE, IN_USE}

\* C2: after any sequence of operations executed one at a time, every asset
\* has at most one issuance row whose return_date is null.
C2_SingleActiveIssuance ==
    \A a \in DOMAIN assets : Cardinality(OpenIssuances(a)) <= 1

\* C3: when issue_asset requests for the same AVAILABLE asset interleave at
\* their check and their commit, at most one of them inserts an issuance and
\* a document cohort.
C3_OneConcurrentIssueSucceeds ==
    \A a \in DOMAIN assets :
        /\ Cardinality({i \in DOMAIN asset_issuances :
                           asset_issuances[i].asset_id = a}) <= 1
        /\ Cardinality({d \in DOMAIN asset_documents :
                           asset_documents[d].asset_id = a}) <= Len(document_types)

\* C4: for the cohort of an open issuance whose asset is
\* PENDING_FOR_SIGNATURE, a successful signature of one of its PENDING
\* documents leaves the asset PENDING_FOR_SIGNATURE while a document of the
\* cohort is unsigned and moves it to IN_USE in the step that signs the last
\* one, whatever the earlier history of the (asset, user) pair.
C4_LastSignatureMovesToInUse ==
    [][\A i \in DOMAIN asset_issuances : \A d \in CohortOf(i) :
          LET a == asset_issuances[i].asset_id
          IN  (/\ response' = Ok("sign_document", d)
               /\ asset_documents[d].status = PENDING
               /\ asset_issuances[i].return_date = NULL
               /\ a \in DOMAIN assets
               /\ assets[a].status = PENDING_FOR_SIGNATURE
               /\ assets[a].assigned_user_id = Some(asset_issuances[i].user_id))
              => assets'[a].status =
                     IF \A e \in CohortOf(i) : asset_documents'[e].status = SIGNED
                     THEN IN_USE
                     ELSE PENDING_FOR_SIGNATURE]_vars

\* C5: every successful issue_asset(asset, user) adds exactly three documents,
\* one per document type, all PENDING and all of that asset and user, leaves
\* the stored documents and issuances as they were, sets the asset to
\* PENDING_FOR_SIGNATURE with the user assigned and the user's department,
\* and adds one issuance with return_date null.
C5_IssueCreatesCohort ==
    [][\A a \in DOMAIN assets :
          (/\ response' = Ok("issue_asset", a)
           /\ assets[a].status = AVAILABLE)
          => LET n == Len(asset_documents)
                 m == Len(asset_issuances)
                 issuance == asset_issuances'[m + 1]
                 u == issuance.user_id
             IN  /\ Len(asset_issuances') = m + 1
                 /\ \A j \in 1..m : asset_issuances'[j] = asset_issuances[j]
                 /\ issuance.asset_id = a
                 /\ issuance.return_date = NULL
                 /\ u \in DOMAIN users
                 /\ Len(asset_documents') = n + 3
                 /\ \A k \in 1..n : asset_documents'[k] = asset_documents[k]
                 /\ {asset_documents'[n + k].document_type : k \in 1..3} = DocumentType
                 /\ \A k \in 1..3 :
                       /\ asset_documents'[n + k].status = PENDING
                       /\ asset_documents'[n + k].asset_id = a
                       /\ asset_documents'[n + k].user_id = u
                 /\ assets'[a] = [status |-> PENDING_FOR_SIGNATURE,
                                  assigned_user_id |-> Some(u),
                                  department |-> users[u].department]]_vars

\* An issue of an asset that was issued and returned before.
C5_Witness ==
    /\ response = Ok("issue_asset", 1)
    /\ Len(asset_issuances) = 2
    /\ Len(asset_documents) = 6
    /\ assets[1].status = PENDING_FOR_SIGNATURE

\* C6: issue_asset on an asset whose status is not AVAILABLE fails with 400
\* "Asset is not available for issuance" and leaves the assets, the
\* issuances, the documents and the audit log unchanged.
C6_RejectsUnavailable ==
    [][\A a \in DOMAIN assets :
          (/\ response'.op = "issue_asset"
           /\ response'.target = a
           /\ assets[a].status # AVAILABLE)
          => /\ response' = HTTPException("issue_asset", a, 400,
                                          "Asset is not available for issuance")
             /\ UNCHANGED <<assets, asset_issuances, asset_documents, audit_logs>>]_vars

\* A second issue with no return or cancel in between was refused.
C6_Witness ==
    /\ response = HTTPException("issue_asset", 1, 400,
                                "Asset is not available for issuance")
    /\ Len(asset_issuances) = 1
    /\ OpenIssuances(1) # {}

\* C7: sign_document on a PENDING document whose expires_at is earlier than
\* the current time fails with 400 "Document has expired", leaves the
\* document EXPIRED with no signature and no signing date, changes no other
\* document and no asset; an EXPIRED document stays EXPIRED.
C7_ExpiryBlocksSigning ==
    [][\A d \in DOMAIN asset_documents :
          /\ (/\ response'.op = "sign_document"
              /\ response'.target = d
              /\ now' = now
              /\ asset_documents[d].status = PENDING
              /\ \E e \in asset_documents[d].expires_at : e < now)
             => /\ response' = HTTPExceptionAfterCommit("sign_document", d, 400,
                                                        "Document has expired")
                /\ asset_documents'[d].status = EXPIRED
                /\ asset_documents'[d].signature_data = None
                /\ asset_documents'[d].signed_at = NULL
                /\ \A e \in DOMAIN asset_documents \ {d} :
                       asset_documents'[e] = asset_documents[e]
                /\ UNCHANGED assets
          /\ asset_documents[d].status = EXPIRED
             => asset_documents'[d] = asset_documents[d]]_vars

\* A signature was refused on an expired document.
C7_Witness ==
    \E d \in DOMAIN asset_documents :
        /\ response = HTTPExceptionAfterCommit("sign_document", d, 400,
                                               "Document has expired")
        /\ asset_documents[d].status = EXPIRED
        /\ asset_documents[d].signature_data = None

\* C8: a cancel_issuance on an asset that is PENDING_FOR_SIGNATURE or IN_USE
\* succeeds whether or not documents are SIGNED; it sets every PENDING
\* document of the issuance's (asset, user) pair to CANCELLED and leaves
\* every other document, the SIGNED ones included, as it was.
C8_CancelSparesSigned ==
    [][\A i \in DOMAIN asset_issuances :
          LET a == asset_issuances[i].asset_id
              u == asset_issuances[i].user_id
          IN  (/\ response'.op = "cancel_issuance"
               /\ response'.target = i
               /\ a \in DOMAIN assets
               /\ assets[a].status \in {PENDING_FOR_SIGNATURE, IN_USE})
              => /\ response' = Ok("cancel_issuance", i)
                 /\ DOMAIN asset_documents' = DOMAIN asset_documents
                 /\ \A d \in DOMAIN asset_documents :
                        asset_documents'[d] =
                            IF /\ asset_documents[d].status = PENDING
                               /\ asset_documents[d].asset_id = a
                               /\ asset_documents[d].user_id = u
                            THEN [asset_documents[d] EXCEPT !.status = CANCELLED]
                            ELSE asset_documents[d]]_vars

\* A cohort with signed and pending documents was cancelled.
C8_Witness ==
    /\ response.op = "cancel_issuance"
    /\ response.status_code = 200
    /\ \E d, e \in CohortOf(response.target) :
           /\ asset_documents[d].status = SIGNED
           /\ asset_documents[d].signature_data \in Signatures
           /\ asset_documents[e].status = CANCELLED

\* C9: a cancel_issuance of an open issuance whose asset is as issue_asset
\* left it and whose three documents are all still PENDING succeeds and
\* leaves the asset AVAILABLE with no assigned user and department "IT", the
\* three documents CANCELLED, the issuance's return_date set and its notes
\* equal to "CANCELLED: " followed by the reason.
C9_CancelBeforeSignature ==
    [][\A i \in DOMAIN asset_issuances :
          LET a == asset_issuances[i].asset_id
          IN  (/\ response'.op = "cancel_issuance"
               /\ response'.target = i
               /\ asset_issuances[i].return_date = NULL
               /\ a \in DOMAIN assets
               /\ assets[a].status = PENDING_FOR_SIGNATURE
               /\ assets[a].assigned_user_id = Some(asset_issuances[i].user_id)
               /\ \A d \in CohortOf(i) : asset_documents[d].status = PENDING)
              => /\ response' = Ok("cancel_issuance", i)
                 /\ assets'[a] = [status |-> AVAILABLE, assigned_user_id |-> NULL,
                                  department |-> "IT"]
                 /\ \A d \in CohortOf(i) : asset_documents'[d].status = CANCELLED
                 /\ asset_issuances'[i].return_date = Some(now)
                 /\ asset_issuances'[i].notes \in {"CANCELLED: " \o r : r \in Reasons}]_vars

\* An issuance was cancelled with none of its documents signed.
C9_Witness ==
    \E i \in DOMAIN asset_issuances :
        /\ response = Ok("cancel_issuance", i)
        /\ \A d \in CohortOf(i) : asset_documents[d].status = CANCELLED
        /\ asset_issuances[i].notes = "CANCELLED: changed mind"
        /\ asset_issuances[i].return_date # NULL
        /\ assets[asset_issuances[i].asset_id].status = AVAILABLE

\* C10: a return_asset that ends the cycle issue, sign all three documents,
\* return (the asset IN_USE, the documents of the issuance being closed all
\* SIGNED) leaves the asset AVAILABLE, hence issuable again, with no assigned
\* user and department "IT", that issuance closed and no open issuance for
\* the asset.
C10_FullCycleClosesLedger ==
    [][\A a \in DOMAIN assets : \A i \in OpenIssuances(a) :
          (/\ response' = Ok("return_asset", a)
           /\ asset_issuances'[i].return_date # NULL
           /\ assets[a].status = IN_USE
           /\ \A d \in CohortOf(i) : asset_documents[d].status = SIGNED)
          => /\ assets'[a] = [status |-> AVAILABLE, assigned_user_id |-> NULL,
                              department |-> "IT"]
             /\ asset_issuances'[i].return_date = Some(now)
             /\ \A j \in DOMAIN asset_issuances' :
                    asset_issuances'[j].asset_id = a
                        => asset_issuances'[j].return_date # NULL]_vars

\* C11: across every operation, asset deletion and the bulk deletes included,
\* the number of audit log entries never decreases and every stored entry
\* keeps all its fields.
C11_AuditAppendOnly ==
    [][/\ Len(audit_logs') >= Len(audit_logs)
       /\ \A k \in DOMAIN audit_logs : audit_logs'[k] = audit_logs[k]]_vars

\* An asset was deleted and the entries that name it are still stored.
C11_Witness ==
    /\ response.op \in {"delete_asset", "delete_all_servers"}
    /\ response.status_code = 200
    /\ 1 \notin DOMAIN assets
    /\ \E k, l \in DOMAIN audit_logs :
           /\ k < l
           /\ audit_logs[k].action = "create" /\ audit_logs[k].resource_id = 1
           /\ audit_logs[l].action \in {"update", "delete"}

\* C12: a document's status changes only from PENDING, to SIGNED, EXPIRED or
\* CANCELLED; a SIGNED, EXPIRED or CANCELLED document keeps its status under
\* every sign, cancel, return and issue, and no document row disappears.
C12_DocumentStatusOneWay ==
    [][\A d \in DOMAIN asset_documents :
          /\ d \in DOMAIN asset_documents'
          /\ asset_documents'[d].status # asset_documents[d].status
             => /\ asset_documents[d].status = PENDING
                /\ asset_documents'[d].status \in {SIGNED, EXPIRED, CANCELLED}]_vars

\* One cohort holds a signed, an expired and a cancelled document.
C12_Witness ==
    \E i \in DOMAIN asset_issuances :
        {asset_documents[d].status : d \in CohortOf(i)} = {SIGNED, EXPIRED, CANCELLED}

\* C13: a successful sign_document triggers the transition to IN_USE (the
\* "status_change" entry is written) if and only if every document of the
\* signed document's (asset, user) pair that is not CANCELLED is SIGNED; a
\* pair with an EXPIRED or PENDING document does not trigger it.
C13_AllSignedIffNoneOutstanding ==
    [][\A d \in DOMAIN asset_documents :
          (/\ response' = Ok("sign_document", d)
           /\ now' = now
           /\ asset_documents[d].status = PENDING
           /\ asset_documents[d].asset_id \in DOMAIN assets)
          => ((/\ Len(audit_logs') = Len(audit_logs) + 2
               /\ audit_logs'[Len(audit_logs) + 1].action = "status_change"
               /\ assets'[asset_documents[d].asset_id].status = IN_USE)
              <=> \A e \in DOMAIN asset_documents' :
                      (/\ asset_documents'[e].asset_id = asset_documents[d].asset_id
                       /\ asset_documents'[e].user_id = asset_documents[d].user_id
                       /\ asset_documents'[e].status # CANCELLED)
                      => asset_documents'[e].status = SIGNED)]_vars

\* C14: cancel_issuance on an issuance whose asset is neither
\* PENDING_FOR_SIGNATURE nor IN_USE fails with 400 "Can only cancel pending
\* or active issuances" and changes no asset, issuance, document or audit
\* entry.
C14_CancelNeedsHeldAsset ==
    [][\A i \in DOMAIN asset_issuances :
          (/\ response'.op = "cancel_issuance"
           /\ response'.target = i
           /\ asset_issuances[i].asset_id \in DOMAIN assets
           /\ assets[asset_issuances[i].asset_id].status
                  \notin {PENDING_FOR_SIGNATURE, IN_USE})
          => /\ response' = HTTPException("cancel_issuance", i, 400,
                                          "Can only cancel pending or active issuances")
             /\ UNCHANGED <<assets, asset_issuances, asset_documents, audit_logs>>]_vars

\* A cancel was refused on an open issuance whose asset had been put under
\* maintenance.
C14_Witness ==
    \E i \in DOMAIN asset_issuances :
        /\ response = HTTPException("cancel_issuance", i, 400,
                                    "Can only cancel pending or active issuances")
        /\ asset_issuances[i].return_date = NULL
        /\ assets[asset_issuances[i].asset_id].status = MAINTENANCE

\* C15: an issuance whose return_date is set never changes again, and a
\* cancel_issuance on it fails with a 400 and changes neither the issuances
\* nor any asset, also when the asset has been issued again since.
C15_ClosedIssuanceImmutable ==
    [][\A i \in DOMAIN asset_issuances :
          asset_issuances[i].return_date # NULL
          => /\ asset_issuances'[i] = asset_issuances[i]
             /\ (response'.op = "cancel_issuance" /\ response'.target = i)
                => /\ response'.status_code = 400
                   /\ UNCHANGED <<assets, asset_issuances>>]_vars

\* C16: return_asset on an asset none of whose issuances has return_date null
\* fails with 400 "No active issuance record found" and changes no asset and
\* no issuance.
C16_ReturnNeedsOpenIssuance ==
    [][\A a \in DOMAIN assets :
          (/\ response'.op = "return_asset"
           /\ response'.target = a
           /\ \A i \in DOMAIN asset_issuances :
                  asset_issuances[i].asset_id = a
                      => asset_issuances[i].return_date # NULL)
          => /\ response' = HTTPException("return_asset", a, 400,
                                          "No active issuance record found")
             /\ UNCHANGED <<assets, asset_issuances, asset_documents, audit_logs>>]_vars

\* A second return of a returned asset was refused.
C16_Witness ==
    \E i \in DOMAIN asset_issuances :
        /\ response = HTTPException("return_asset", asset_issuances[i].asset_id, 400,
                                    "No active issuance record found")
        /\ asset_issuances[i].return_date # NULL
        /\ asset_issuances[i].notes = None

\* C17: after every successful return_asset or cancel_issuance the issuance
\* it closed has its return_date set, the asset is AVAILABLE and no document
\* of that issuance's (asset, user) pair is PENDING.
C17_CloseLeavesNothingPending ==
    [][\A i \in DOMAIN asset_issuances :
          LET a == asset_issuances[i].asset_id
              u == asset_issuances[i].user_id
          IN  (\/ response' = Ok("cancel_issuance", i)
               \/ /\ response' = Ok("return_asset", a)
                  /\ asset_issuances[i].return_date = NULL
                  /\ asset_issuances'[i].return_date # NULL)
              => /\ asset_issuances'[i].return_date # NULL
                 /\ assets'[a].status = AVAILABLE
                 /\ \A d \in DOMAIN asset_documents' :
                        (/\ asset_documents'[d].asset_id = a
                         /\ asset_documents'[d].user_id = u)
                        => asset_documents'[d].status # PENDING]_vars

\* C18: an asset with an open issuance is never deleted: delete_asset on it
\* fails with 400 "Cannot delete asset that is currently issued" and changes
\* nothing, and no step, the bulk deletes included, removes the asset.
C18_NoDeleteWhileIssued ==
    [][\A a \in DOMAIN assets :
          (\E i \in DOMAIN asset_issuances :
               /\ asset_issuances[i].asset_id = a
               /\ asset_issuances[i].return_date = NULL)
          => /\ a \in DOMAIN assets'
             /\ (response'.op = "delete_asset" /\ response'.target = a)
                => /\ response' = HTTPException("delete_asset", a, 400,
                                     "Cannot delete asset that is currently issued")
                   /\ UNCHANGED db]_vars

\* The delete of an issued asset was refused.
C18_Witness ==
    /\ response = HTTPException("delete_asset", 1, 400,
                                "Cannot delete asset that is currently issued")
    /\ 1 \in DOMAIN assets
    /\ \E i \in DOMAIN asset_issuances :
           asset_issuances[i].asset_id = 1 /\ asset_issuances[i].return_date = NULL

\* C19: issue_asset of an AVAILABLE asset to a user id that no user has fails
\* with 404 "User not found", adds no issuance, no document and no audit
\* entry, and leaves the asset AVAILABLE with no assigned user.
C19_IssueNeedsUser ==
    [][\A a \in AssetIdInputs, u \in UserIdInputs :
          (/\ a \in DOMAIN assets
           /\ assets[a].status = AVAILABLE
           /\ u \notin DOMAIN users
           /\ issue_asset(a, u, None))
          => /\ response' = HTTPException("issue_asset", a, 404, "User not found")
             /\ UNCHANGED <<assets, asset_issuances, asset_documents, audit_logs>>
             /\ assets'[a].status = AVAILABLE
             /\ assets'[a].assigned_user_id = NULL]_vars

\* A returned asset was refused to a user id nobody has.
C19_Witness ==
    /\ response = HTTPException("issue_asset", 1, 404, "User not found")
    /\ assets[1].status = AVAILABLE
    /\ Len(asset_issuances) = 1
    /\ Len(asset_documents) = 3

\* C20: sign_document fails with 404 "Document not found" for a document id
\* that is not stored and with 400 "Document is not pending signature" for a
\* SIGNED, EXPIRED or CANCELLED document; either way no document, asset or
\* audit entry changes.
C20_SignNeedsPendingDocument ==
    [][\A d \in DocumentIdInputs :
          (/\ response'.op = "sign_document"
           /\ response'.target = d
           /\ now' = now)
          => /\ d \notin DOMAIN asset_documents
                => /\ response' = HTTPException("sign_document", d, 404,
                                                "Document not found")
                   /\ UNCHANGED <<assets, asset_documents, audit_logs>>
             /\ (/\ d \in DOMAIN asset_documents
                 /\ asset_documents[d].status \in {SIGNED, EXPIRED, CANCELLED})
                => /\ response' = HTTPException("sign_document", d, 400,
                                                "Document is not pending signature")
                   /\ UNCHANGED <<assets, asset_documents, audit_logs>>]_vars

\* A signature was refused on a document of a cancelled cohort.
C20_Witness ==
    \E d \in DOMAIN asset_documents :
        /\ response = HTTPException("sign_document", d, 400,
                                    "Document is not pending signature")
        /\ asset_documents[d].status = CANCELLED

\* C21: every successful issue_asset, sign_document, return_asset and
\* cancel_issuance, and every update_asset that changes a field of the asset,
\* appends at least one audit entry in the same request.
C21_MutationsAreAudited ==
    [][(\/ /\ response'.status_code = 200
           /\ response'.op \in {"issue_asset", "sign_document", "return_asset",
                                "cancel_issuance"}
        \/ /\ response'.op = "update_asset"
           /\ assets' # assets)
       => Len(audit_logs') > Len(audit_logs)]_vars

\* C22: the ledger change and its audit entry are committed together or not
\* at all: once no request is in flight, however the requests ended, every
\* asset has as many "assign" audit entries as issuance rows.
C22_ChangeAndAuditTogether ==
    (\A s \in SessionIds : sessions[s] = Idle)
    => \A a \in DOMAIN assets :
           Cardinality(IssuancesOf(a))
               = Cardinality({l \in DOMAIN audit_logs :
                                 /\ audit_logs[l].action = "assign"
                                 /\ audit_logs[l].resource_id = a})

\* C23: update_asset with a status string outside the status enumeration is
\* rejected: the request fails, no field of the asset changes and no audit
\* entry is written, whatever else the body submits.
C23_InvalidStatusRejected ==
    [][\A a \in DOMAIN assets, f \in UpdateData :
          (/\ "status" \in DOMAIN f
           /\ f["status"] \notin AssetStatus \cup {None}
           /\ update_asset(a, f))
          => /\ response'.status_code # 200
             /\ UNCHANGED <<assets, audit_logs>>]_vars

\* C24: a successful update_asset appends an audit entry only when a field of
\* the asset changes, that entry is one "update" entry whose old_values and
\* new_values hold exactly the fields whose stored value changed, and an
\* update that changes nothing appends no entry.
C24_UpdateLogsExactlyChanges ==
    [][\A a \in DOMAIN assets :
          response' = Ok("update_asset", a)
          => LET changed == {k \in DOMAIN assets[a] : assets'[a][k] # assets[a][k]}
                 n == Len(audit_logs)
             IN  /\ changed = {} => audit_logs' = audit_logs
                 /\ audit_logs' # audit_logs
                    => /\ Len(audit_logs') = n + 1
                       /\ \A l \in 1..n : audit_logs'[l] = audit_logs[l]
                       /\ audit_logs'[n + 1].action = "update"
                       /\ DOMAIN audit_logs'[n + 1].old_values = changed
                       /\ DOMAIN audit_logs'[n + 1].new_values = changed]_vars

\* C25: after every step, update_asset and update_user included, an asset
\* with an assigned user has that user's department, and a successful
\* return_asset or cancel_issuance leaves the asset with department "IT".
C25_DepartmentMirrorsHolder ==
    [][/\ \A a \in DOMAIN assets' : \A u \in assets'[a].assigned_user_id :
              /\ u \in DOMAIN users'
              /\ assets'[a].department = users'[u].department
       /\ \A a \in DOMAIN assets :
              response' = Ok("return_asset", a) => assets'[a].department = "IT"
       /\ \A i \in DOMAIN asset_issuances :
              response' = Ok("cancel_issuance", i)
              => assets'[asset_issuances[i].asset_id].department = "IT"]_vars

\* C26: the stored documents are exactly the cohorts of the issuances: every
\* issuance has exactly one document per document type, of its asset and
\* user, and no operation of either router adds a further document.
C26_OneDocumentPerType ==
    /\ Len(asset_documents) = Len(document_types) * Len(asset_issuances)
    /\ \A i \in DOMAIN asset_issuances : \A t \in DocumentType :
           Cardinality({d \in CohortOf(i) \cap DOMAIN asset_documents :
                           /\ asset_documents[d].document_type = t
                           /\ asset_documents[d].asset_id = asset_issuances[i].asset_id
                           /\ asset_documents[d].user_id = asset_issuances[i].user_id}) = 1

\* C27: when sign_document requests for documents of one cohort interleave at
\* their reads and commits, then once no request is in flight and every
\* document of an open issuance's cohort is SIGNED, the asset is IN_USE and
\* exactly one "status_change" entry was written for it.
C27_ConcurrentSignsReachInUse ==
    (\A s \in SessionIds : sessions[s] = Idle)
    => \A i \in DOMAIN asset_issuances :
           (/\ asset_issuances[i].return_date = NULL
            /\ \A d \in CohortOf(i) : asset_documents[d].status = SIGNED)
           => /\ assets[asset_issuances[i].asset_id].status = IN_USE
              /\ Cardinality({l \in DOMAIN audit_logs :
                                 /\ audit_logs[l].action = "status_change"
                                 /\ audit_logs[l].resource_id = asset_issuances[i].asset_id})
                     = 1

\* C28: when a sign_document and a cancel_issuance for one cohort interleave,
\* the signature never lands in the cancelled cohort: once the issuance is
\* closed and the asset has no open issuance, no step sets a document of the
\* cohort SIGNED and no step moves the asset to IN_USE.
C28_NoSignatureAfterCancel ==
    [][\A i \in DOMAIN asset_issuances :
          (/\ asset_issuances[i].return_date # NULL
           /\ OpenIssuances(asset_issuances[i].asset_id) = {})
          => /\ \A d \in CohortOf(i) :
                    asset_documents[d].status # SIGNED
                    => asset_documents'[d].status # SIGNED
             /\ assets'[asset_issuances[i].asset_id].status # IN_USE]_vars

\* C29: on every listing (get_assets, get_user_type_assets,
\* export_assets_csv, get_servers, get_network_appliances) a status filter
\* string that is not a value of the status enumeration is treated as no
\* filter: the listing answers with the rows it answers with no status.
C29_InvalidFilterIsNoFilter ==
    [][\A st \in StatusFilterInputs, rows \in SUBSET DOMAIN assets :
          (/\ st # None
           /\ StripStatus(st) \notin AssetStatus)
          => /\ get_assets(st) => get_assets(None)
             /\ get_user_type_assets(rows, st) => get_user_type_assets(rows, None)
             /\ export_assets_csv(st) => export_assets_csv(None)
             /\ get_servers(rows, st) => get_servers(rows, None)
             /\ get_network_appliances(rows, st)
                => get_network_appliances(rows, None)]_vars

\* C30: sign_document moves an asset to IN_USE from PENDING_FOR_SIGNATURE
\* only: a sign_document request leaves the status of an asset that is
\* AVAILABLE, MAINTENANCE, RETIRED or IN_USE as it is.
C30_InUseOnlyFromPending ==
    [][\A a \in DOMAIN assets :
          (/\ response'.op = "sign_document"
           /\ assets[a].status # PENDING_FOR_SIGNATURE)
          => assets'[a].status = assets[a].status]_vars

\* C31: return_asset takes effect from IN_USE only: every successful
\* return_asset was sent for an asset whose status was IN_USE.
C31_ReturnOnlyFromInUse ==
    [][\A a \in DOMAIN assets :
          response' = Ok("return_asset", a) => assets[a].status = IN_USE]_vars

\* C32: issue_asset persists the issuance, its three documents and the asset
\* update in one step: in every state, also after a request failed part-way,
\* every open issuance has its cohort of three documents, one per type, of
\* its asset and user, and its asset is not AVAILABLE.
C32_IssueIsAtomic ==
    \A i \in DOMAIN asset_issuances :
        asset_issuances[i].return_date = NULL
        => /\ CohortOf(i) \subseteq DOMAIN asset_documents
           /\ {asset_documents[d].document_type : d \in CohortOf(i)} = DocumentType
           /\ \A d \in CohortOf(i) :
                  /\ asset_documents[d].asset_id = asset_issuances[i].asset_id
                  /\ asset_documents[d].user_id = asset_issuances[i].user_id
           /\ asset_issuances[i].asset_id \in DOMAIN assets
           /\ assets[asset_issuances[i].asset_id].status # AVAILABLE

\* A request failed before its commit while another one had committed its
\* issuance.
C32_Witness ==
    /\ response = HTTPException("issue_asset", 1, 500, "Internal Server Error")
    /\ \A s \in SessionIds : sessions[s].pc \in {"idle", "issue_committed"}
    /\ Len(asset_issuances) = 1
    /\ asset_issuances[1].return_date = NULL

\* C33: issuance rows are never deleted: no issue, return, cancel or sign
\* step removes an issuance, and every issuance keeps its asset, its user and
\* its issued_date.
C33_IssuancesAreRetained ==
    [][/\ Len(asset_issuances') >= Len(asset_issuances)
       /\ \A i \in DOMAIN asset_issuances :
              /\ asset_issuances'[i].asset_id = asset_issuances[i].asset_id
              /\ asset_issuances'[i].user_id = asset_issuances[i].user_id
              /\ asset_issuances'[i].issued_date = asset_issuances[i].issued_date]_vars

\* A closed issuance of an earlier day is stored next to a later one.
C33_Witness ==
    /\ Len(asset_issuances) = 2
    /\ asset_issuances[1].return_date # NULL
    /\ asset_issuances[1].issued_date < asset_issuances[2].issued_date

\* C34: cancelling is idempotent: a successful cancel_issuance leaves no
\* PENDING document of the issuance's asset and user, so cancelling the
\* cohort again changes no document; and a cancel_issuance for an issuance
\* that was cancelled before changes no asset, issuance or document.
C34_CancelIsIdempotent ==
    [][\A i \in DOMAIN asset_issuances :
          /\ response' = Ok("cancel_issuance", i)
             => \A d \in DOMAIN asset_documents' :
                    (/\ asset_documents'[d].asset_id = asset_issuances[i].asset_id
                     /\ asset_documents'[d].user_id = asset_issuances[i].user_id)
                    => asset_documents'[d].status # PENDING
          /\ (/\ response'.op = "cancel_issuance"
              /\ response'.target = i
              /\ \E r \in Reasons : asset_issuances[i].notes = CancelNotes(r))
             => UNCHANGED <<assets, asset_issuances, asset_documents>>]_vars

\* C35: a successful sign_document that completes the cohort of an open
\* issuance appends exactly two audit entries, "status_change" for the asset and then "sign_document"
\* for the document; one that does not complete its cohort appends exactly
\* one, "sign_document", and leaves the asset as it was.
C35_SignAuditEntries ==
    [][\A i \in DOMAIN asset_issuances : \A d \in CohortOf(i) :
          (/\ asset_issuances[i].return_date = NULL
           /\ response' = Ok("sign_document", d))
          => LET n == Len(audit_logs)
             IN  IF \A e \in CohortOf(i) : asset_documents'[e].status = SIGNED
                 THEN /\ Len(audit_logs') = n + 2
                      /\ \A l \in 1..n : audit_logs'[l] = audit_logs[l]
                      /\ audit_logs'[n + 1].action = "status_change"
                      /\ audit_logs'[n + 1].resource_id = asset_issuances[i].asset_id
                      /\ audit_logs'[n + 2].action = "sign_document"
                      /\ audit_logs'[n + 2].resource_id = d
                 ELSE /\ Len(audit_logs') = n + 1
                      /\ \A l \in 1..n : audit_logs'[l] = audit_logs[l]
                      /\ audit_logs'[n + 1].action = "sign_document"
                      /\ audit_logs'[n + 1].resource_id = d
                      /\ assets' = assets]_vars

\* C36: in every reachable state an asset has an open issuance exactly when
\* its status is PENDING_FOR_SIGNATURE or IN_USE, and the user of that open
\* issuance is the asset's assigned user.
C36_OpenIssuanceIffHeld ==
    \A a \in DOMAIN assets :
        /\ (OpenIssuances(a) # {})
           <=> (assets[a].status \in {PENDING_FOR_SIGNATURE, IN_USE})
        /\ \A i \in OpenIssuances(a) :
               assets[a].assigned_user_id = Some(asset_issuances[i].user_id)

\* C37: with only issue_asset, sign_document, return_asset and
\* cancel_issuance, an asset that is IN_USE has an open issuance whose cohort
\* holds a SIGNED document of each required type for the issuance's user.
C37_InUseHasSignedCohort ==
    \A a \in DOMAIN assets :
        assets[a].status = IN_USE
        => \E i \in OpenIssuances(a) :
               \A t \in DocumentType :
                   \E d \in CohortOf(i) :
                       /\ asset_documents[d].document_type = t
                       /\ asset_documents[d].user_id = asset_issuances[i].user_id
                       /\ asset_documents[d].status = SIGNED

\* C38: after any update_asset call, one that passes status as null or as an
\* empty string included, the stored status of every asset is one of the
\* five values of AssetStatus.
C38_StoredStatusIsEnumerated ==
    [][\A a \in DOMAIN assets :
          response'.op = "update_asset" /\ response'.target = a
          => assets'[a].status \in AssetStatus]_vars
====
